---- MODULE Spec2Model ----
(***************************************************************************)
(* univllm: the Gemini provider adapter (complete, stream_complete,        *)
(* get_model_capabilities) and the dispatcher's image-generation failure   *)
(* paths.  Strings the code inspects character by character (model names,  *)
(* vendor error messages) are sequences of one-character strings.          *)
(***************************************************************************)
EXTENDS Integers, Sequences, FiniteSets, TLC

VARIABLES self, op, request, vendor, transport, gen, pos, emitted, outcome, tasks, thread

vars == <<self, op, request, vendor, transport, gen, pos, emitted, outcome, tasks, thread>>

\* one call at a time: the frame of the call in progress
frame == <<op, request, vendor, transport, gen, pos, emitted, outcome>>

\* several calls on one event loop: each task's frame, and the task holding the host thread
loop == <<tasks, thread>>

(* ---------------- bounds of the model ---------------- *)
MaxMessages == 2
MaxChunks == 3
MaxTasks == 2

(* ---------------- Python values ---------------- *)
\* Optional[T]: None is the empty sequence, a value v is <<v>>.
None == <<>>
Some(v) == <<v>>
IsNone(o) == o = <<>>

\* str.startswith
StartsWith(s, p) == Len(s) >= Len(p) /\ SubSeq(s, 1, Len(p)) = p

\* the `in` operator on strings
Contains(s, p) == \E i \in 0..(Len(s) - Len(p)) : SubSeq(s, i + 1, i + Len(p)) = p


Upper == <<"A", "B", "C", "D", "E", "F", "G", "H", "I", "J", "K", "L", "M", "N", "O", "P", "Q", "R", "S", "T", "U", "V", "W", "X", "Y", "Z">>
LowerOf == <<"a", "b", "c", "d", "e", "f", "g", "h", "i", "j", "k", "l", "m", "n", "o", "p", "q", "r", "s", "t", "u", "v", "w", "x", "y", "z">>

\* str.lower, one character
LowerChar(c) == IF \E i \in 1..Len(Upper) : Upper[i] = c THEN LowerOf[CHOOSE i \in 1..Len(Upper) : Upper[i] = c] ELSE c

\* str.lower
Lower(s) == [i \in 1..Len(s) |-> LowerChar(s[i])]

\* str(x) of an optional vendor value: str(None) is the text "None"
Str(o) == IF IsNone(o) THEN "None" ELSE o[1]

(* ---------------- model-name prefixes of get_model_capabilities ---------------- *)
P_gemini_3_pro == <<"g", "e", "m", "i", "n", "i", "-", "3", "-", "p", "r", "o">>
P_gemini_3_flash == <<"g", "e", "m", "i", "n", "i", "-", "3", "-", "f", "l", "a", "s", "h">>
P_gemini_25_pro == <<"g", "e", "m", "i", "n", "i", "-", "2", ".", "5", "-", "p", "r", "o">>
P_gemini_25_flash == <<"g", "e", "m", "i", "n", "i", "-", "2", ".", "5", "-", "f", "l", "a", "s", "h">>
P_gemini_20_flash == <<"g", "e", "m", "i", "n", "i", "-", "2", ".", "0", "-", "f", "l", "a", "s", "h">>
P_gemini_15_pro == <<"g", "e", "m", "i", "n", "i", "-", "1", ".", "5", "-", "p", "r", "o">>
P_gemini_15_flash == <<"g", "e", "m", "i", "n", "i", "-", "1", ".", "5", "-", "f", "l", "a", "s", "h">>

(* ---------------- model names used as inputs ---------------- *)
S_preview == <<"-", "p", "r", "e", "v", "i", "e", "w">>
S_lite == <<"-", "l", "i", "t", "e">>
N_gemini_pro == <<"g", "e", "m", "i", "n", "i", "-", "p", "r", "o">>
N_gemini_3 == <<"g", "e", "m", "i", "n", "i", "-", "3">>
N_gpt_4o == <<"g", "p", "t", "-", "4", "o">>
N_unknown == <<"t", "o", "t", "a", "l", "l", "y", "-", "u", "n", "k", "n", "o", "w", "n", "-", "m", "o", "d", "e", "l">>
N_deepseek_chat == <<"d", "e", "e", "p", "s", "e", "e", "k", "-", "c", "h", "a", "t">>
N_gpt_image_1 == <<"g", "p", "t", "-", "i", "m", "a", "g", "e", "-", "1">>

(* ---------------- the registry (supported_models, base.validate_model) ---------------- *)
\* GEMINI_SUPPORTED_MODELS: the registered Gemini model families
GEMINI_SUPPORTED_MODELS == {P_gemini_3_pro, P_gemini_3_flash, P_gemini_25_pro, P_gemini_25_flash, P_gemini_20_flash, P_gemini_15_pro, P_gemini_15_flash}

\* BaseLLMProvider.validate_model: the name matches a registered pattern
validate_model(supported, model) == \E p \in supported : StartsWith(model, p)

(* ---------------- errors ---------------- *)
NoOutcome == [kind |-> "none"]
Error(type, prefix, detail) == [kind |-> "error", type |-> type, prefix |-> prefix, detail |-> detail]

\* raise ModelNotSupportedError(f"Model {model} is not supported by Gemini provider")
ModelNotSupported(model) == Error("ModelNotSupportedError", "Model ", model)

(* ---------------- get_model_capabilities ---------------- *)
\* ModelCapabilities(...) as constructed: the four flags given, the two limits not assigned
DefaultCapabilities == [supports_system_messages |-> TRUE, supports_function_calling |-> TRUE, supports_streaming |-> TRUE, supports_vision |-> FALSE, context_window |-> None, max_tokens |-> None]

WithLimits(c, cw, mt) == [c EXCEPT !.context_window = Some(cw), !.max_tokens = Some(mt), !.supports_vision = TRUE]

\* a mutant: the gemini-2.0-flash branch is missing
family_capabilities_no20(model) ==
  LET c == DefaultCapabilities IN
  IF StartsWith(model, P_gemini_3_pro) THEN WithLimits(c, 2000000, 8192)
  ELSE IF StartsWith(model, P_gemini_3_flash) THEN WithLimits(c, 1000000, 8192)
  ELSE IF StartsWith(model, P_gemini_25_pro) THEN WithLimits(c, 1000000, 8192)
  ELSE IF StartsWith(model, P_gemini_25_flash) THEN WithLimits(c, 1000000, 8192)
  ELSE IF StartsWith(model, P_gemini_15_pro) THEN WithLimits(c, 2000000, 8192)
  ELSE IF StartsWith(model, P_gemini_15_flash) THEN WithLimits(c, 1000000, 8192)
  ELSE c

\* the if/elif chain on the model-family prefix
family_capabilities(model) ==
  LET c == DefaultCapabilities IN
  IF StartsWith(model, P_gemini_3_pro) THEN WithLimits(c, 2000000, 8192)
  ELSE IF StartsWith(model, P_gemini_3_flash) THEN WithLimits(c, 1000000, 8192)
  ELSE IF StartsWith(model, P_gemini_25_pro) THEN WithLimits(c, 1000000, 8192)
  ELSE IF StartsWith(model, P_gemini_25_flash) THEN WithLimits(c, 1000000, 8192)
  ELSE IF StartsWith(model, P_gemini_20_flash) THEN WithLimits(c, 1000000, 8192)
  ELSE IF StartsWith(model, P_gemini_15_pro) THEN WithLimits(c, 2000000, 8192)
  ELSE IF StartsWith(model, P_gemini_15_flash) THEN WithLimits(c, 1000000, 8192)
  ELSE c

\* the value get_model_capabilities returns, or the error it raises
get_model_capabilities(supported, model) ==
  IF ~validate_model(supported, model) THEN ModelNotSupported(model)
  ELSE [kind |-> "capabilities", capabilities |-> family_capabilities(model)]

(* ---------------- request translation ---------------- *)
\* the loop state before the first message: system_instruction = None, messages_content = []
LoopStart == [system_instruction |-> None, messages_content |-> <<>>]

\* a mutant: role labels are passed to the vendor unchanged
VendorRole_identity(role) == role

\* 'assistant' becomes 'model', every other role label is passed through
VendorRole(role) == IF role = "assistant" THEN "model" ELSE role

\* a mutant: the first system message is kept instead of the last
complete_step_first(st, msg) ==
  IF msg.role = "system"
  THEN IF IsNone(st.system_instruction) THEN [st EXCEPT !.system_instruction = Some(msg.content)] ELSE st
  ELSE [st EXCEPT !.messages_content = Append(@, [role |-> VendorRole(msg.role), parts |-> <<[text |-> msg.content]>>])]

\* one iteration of complete's loop over request.messages
complete_step(st, msg) ==
  IF msg.role = "system"
  THEN [st EXCEPT !.system_instruction = Some(msg.content)]
  ELSE [st EXCEPT !.messages_content = Append(@, [role |-> VendorRole(msg.role), parts |-> <<[text |-> msg.content]>>])]

RECURSIVE complete_loop(_, _, _)
complete_loop(messages, i, st) ==
  IF i > Len(messages) THEN st ELSE complete_loop(messages, i + 1, complete_step(st, messages[i]))

\* one iteration of stream_complete's loop over request.messages
stream_step(st, msg) ==
  IF msg.role = "system"
  THEN [st EXCEPT !.system_instruction = Some(msg.content)]
  ELSE [st EXCEPT !.messages_content = Append(@, [role |-> VendorRole(msg.role), parts |-> <<[text |-> msg.content]>>])]

RECURSIVE stream_loop(_, _, _)
stream_loop(messages, i, st) ==
  IF i > Len(messages) THEN st ELSE stream_loop(messages, i + 1, stream_step(st, messages[i]))

\* Python truthiness of an Optional[str]: None and "" are falsy
Truthy(o) == ~IsNone(o) /\ o[1] # ""

\* types.GenerateContentConfig(): every field unset
EmptyConfig == [system_instruction |-> None, max_output_tokens |-> None, temperature |-> None, top_p |-> None]

\* a mutant: temperature is tested for truthiness, so 0 is not forwarded
complete_config_truthy(req, system_instruction) ==
  [system_instruction |-> IF Truthy(system_instruction) THEN system_instruction ELSE None,
   max_output_tokens |-> req.max_tokens,
   temperature |-> IF ~IsNone(req.temperature) /\ req.temperature[1] # 0 THEN req.temperature ELSE None,
   top_p |-> req.top_p]

\* a mutant: the system instruction is tested with `is not None`, so "" is sent
complete_config_sys_not_none(req, system_instruction) ==
  [system_instruction |-> system_instruction,
   max_output_tokens |-> req.max_tokens,
   temperature |-> req.temperature,
   top_p |-> req.top_p]

\* complete's generation config: a field is assigned only under its if
complete_config(req, system_instruction) ==
  [system_instruction |-> IF Truthy(system_instruction) THEN system_instruction ELSE EmptyConfig.system_instruction,
   max_output_tokens |-> IF ~IsNone(req.max_tokens) THEN req.max_tokens ELSE EmptyConfig.max_output_tokens,
   temperature |-> IF ~IsNone(req.temperature) THEN req.temperature ELSE EmptyConfig.temperature,
   top_p |-> IF ~IsNone(req.top_p) THEN req.top_p ELSE EmptyConfig.top_p]

\* a mutant: the streaming copy of the translation forgets top_p
stream_config_no_top_p(req, system_instruction) ==
  [system_instruction |-> IF Truthy(system_instruction) THEN system_instruction ELSE None,
   max_output_tokens |-> req.max_tokens,
   temperature |-> req.temperature,
   top_p |-> None]

\* stream_complete's generation config
stream_config(req, system_instruction) ==
  [system_instruction |-> IF Truthy(system_instruction) THEN system_instruction ELSE EmptyConfig.system_instruction,
   max_output_tokens |-> IF ~IsNone(req.max_tokens) THEN req.max_tokens ELSE EmptyConfig.max_output_tokens,
   temperature |-> IF ~IsNone(req.temperature) THEN req.temperature ELSE EmptyConfig.temperature,
   top_p |-> IF ~IsNone(req.top_p) THEN req.top_p ELSE EmptyConfig.top_p]

\* the arguments of client.models.generate_content
complete_call(req) ==
  LET st == complete_loop(req.messages, 1, LoopStart) IN
  [method |-> "generate_content", model |-> req.model, contents |-> st.messages_content,
   config |-> complete_config(req, st.system_instruction)]

\* the arguments of client.models.generate_content_stream
stream_call(req) ==
  LET st == stream_loop(req.messages, 1, LoopStart) IN
  [method |-> "generate_content_stream", model |-> req.model, contents |-> st.messages_content,
   config |-> stream_config(req, st.system_instruction)]

(* ---------------- error classification ---------------- *)
\* the markers the except clause looks for in the lowercased message
K_api_key == <<"a", "p", "i", " ", "k", "e", "y">>
K_auth == <<"a", "u", "t", "h">>
K_quota == <<"q", "u", "o", "t", "a">>
K_rate == <<"r", "a", "t", "e">>

\* phrases of the documented classification examples
K_invalid_api_key == <<"i", "n", "v", "a", "l", "i", "d", " ", "a", "p", "i", " ", "k", "e", "y">>
K_rate_limit == <<"r", "a", "t", "e", " ", "l", "i", "m", "i", "t">>

\* vendor failure messages used as inputs
E_invalid_key == <<"I", "n", "v", "a", "l", "i", "d", " ", "A", "P", "I", " ", "k", "e", "y">>
E_rate_limit == <<"r", "a", "t", "e", " ", "l", "i", "m", "i", "t", " ", "e", "x", "c", "e", "e", "d", "e", "d">>
E_quota == <<"Q", "u", "o", "t", "a", " ", "e", "x", "h", "a", "u", "s", "t", "e", "d">>
E_unauthorized == <<"u", "n", "a", "u", "t", "h", "o", "r", "i", "z", "e", "d">>
E_rate_and_key == <<"r", "a", "t", "e", " ", "l", "i", "m", "i", "t", " ", "h", "i", "t", " ", "f", "o", "r", " ", "a", "p", "i", " ", "k", "e", "y">>
E_generate == <<"n", "o", "t", " ", "s", "u", "p", "p", "o", "r", "t", "e", "d", " ", "f", "o", "r", " ", "g", "e", "n", "e", "r", "a", "t", "e", "C", "o", "n", "t", "e", "n", "t">>
E_timeout == <<"c", "o", "n", "n", "e", "c", "t", "i", "o", "n", " ", "t", "i", "m", "e", "o", "u", "t">>
E_empty == <<>>

\* registry patterns of the other providers
P_gpt == <<"g", "p", "t", "-">>
P_gpt_image == <<"g", "p", "t", "-", "i", "m", "a", "g", "e">>
P_dall_e == <<"d", "a", "l", "l", "-", "e">>
P_claude == <<"c", "l", "a", "u", "d", "e", "-">>
P_deepseek == <<"d", "e", "e", "p", "s", "e", "e", "k", "-">>
P_mistral == <<"m", "i", "s", "t", "r", "a", "l", "-">>

AuthPrefix == "Gemini authentication failed: "
RateLimitPrefix == "Gemini rate limit exceeded: "
GenericPrefix == "Gemini provider error: "

\* a mutant: the rate-limit test comes first
classify_rate_first(msg) ==
  LET error_str == Lower(msg) IN
  IF Contains(error_str, K_quota) \/ Contains(error_str, K_rate) THEN Error("ProviderError", RateLimitPrefix, msg)
  ELSE IF Contains(error_str, K_api_key) \/ Contains(error_str, K_auth) THEN Error("AuthenticationError", AuthPrefix, msg)
  ELSE Error("ProviderError", GenericPrefix, msg)

\* a mutant: the vendor exception escapes unclassified
classify_raw(msg) == Error("VendorException", "", msg)

\* complete's except clause: the exception raised for a vendor exception with message msg
complete_classify(msg) ==
  LET error_str == Lower(msg) IN
  IF Contains(error_str, K_api_key) \/ Contains(error_str, K_auth) THEN Error("AuthenticationError", AuthPrefix, msg)
  ELSE IF Contains(error_str, K_quota) \/ Contains(error_str, K_rate) THEN Error("ProviderError", RateLimitPrefix, msg)
  ELSE Error("ProviderError", GenericPrefix, msg)

\* stream_complete's except clause
stream_classify(msg) ==
  LET error_str == Lower(msg) IN
  IF Contains(error_str, K_api_key) \/ Contains(error_str, K_auth) THEN Error("AuthenticationError", AuthPrefix, msg)
  ELSE IF Contains(error_str, K_quota) \/ Contains(error_str, K_rate) THEN Error("ProviderError", RateLimitPrefix, msg)
  ELSE Error("ProviderError", GenericPrefix, msg)

(* ---------------- response normalisation ---------------- *)
\* An attribute of a vendor object is [has |-> hasattr(obj, name), v |-> its value],
\* the value an Optional.
Attr(v) == [has |-> TRUE, v |-> v]
NoAttr == [has |-> FALSE, v |-> None]

\* content = response.text if hasattr(response, 'text') else ""
complete_content(response) == IF response.text.has THEN response.text.v ELSE Some("")

\* getattr(obj, name, 0) on the usage metadata: obj is None or carries the counters
GetCount(usage_metadata, name) == IF IsNone(usage_metadata) THEN 0 ELSE usage_metadata[1][name]

\* usage: a dict whenever the response has a usage_metadata attribute
complete_usage(response) ==
  IF response.usage_metadata.has
  THEN Some([prompt_tokens |-> GetCount(response.usage_metadata.v, "prompt_token_count"),
             completion_tokens |-> GetCount(response.usage_metadata.v, "candidates_token_count"),
             total_tokens |-> GetCount(response.usage_metadata.v, "total_token_count")])
  ELSE None

\* finish_reason: str() of the first candidate's finish_reason attribute
complete_finish_reason(response) ==
  IF response.candidates.has /\ ~IsNone(response.candidates.v) /\ Len(response.candidates.v[1]) > 0
  THEN LET candidate == response.candidates.v[1][1] IN
       IF candidate.finish_reason.has THEN Some(Str(candidate.finish_reason.v)) ELSE None
  ELSE None

\* CompletionResponse(content=, model=, usage=, finish_reason=, provider=): tool_calls is not passed
complete_response(req, response) ==
  [kind |-> "response", content |-> complete_content(response), model |-> req.model,
   usage |-> complete_usage(response), finish_reason |-> complete_finish_reason(response),
   provider |-> "gemini", tool_calls |-> None]

(* ---------------- streaming ---------------- *)
\* a mutant: only the attribute is tested, so empty texts are yielded too
stream_yields_any(chunk) == chunk.text.has /\ ~IsNone(chunk.text.v)

\* the test of the chunk loop: hasattr(chunk, 'text') and chunk.text
stream_yields(chunk) == chunk.text.has /\ Truthy(chunk.text.v)

\* Resume the generator with p chunks of the vendor stream consumed: run the
\* for loop to the next yield, to the end of the vendor stream, or to the vendor's exception.
RECURSIVE stream_advance(_, _)
stream_advance(script, p) ==
  IF p >= Len(script.chunks)
  THEN IF script.tail = "raise"
       THEN [gen |-> "raised", pos |-> p, yielded |-> None, outcome |-> stream_classify(script.msg)]
       ELSE [gen |-> "closed", pos |-> p, yielded |-> None, outcome |-> [kind |-> "closed"]]
  ELSE IF stream_yields(script.chunks[p + 1])
       THEN [gen |-> "suspended", pos |-> p + 1, yielded |-> script.chunks[p + 1].text.v, outcome |-> NoOutcome]
       ELSE stream_advance(script, p + 1)

(* ---------------- the dispatcher's image generation ---------------- *)
\* providers in auto-detection priority order
ProviderOrder == <<"openai", "anthropic", "gemini", "deepseek", "mistral">>

\* the model-name patterns each provider registers
ProviderPatterns(p) ==
  CASE p = "openai" -> {P_gpt, P_dall_e}
    [] p = "anthropic" -> {P_claude}
    [] p = "gemini" -> GEMINI_SUPPORTED_MODELS
    [] p = "deepseek" -> {P_deepseek}
    [] p = "mistral" -> {P_mistral}

\* auto-detection: the first provider in priority order that validates the model
detect_provider(model) ==
  LET hits == {i \in 1..Len(ProviderOrder) : validate_model(ProviderPatterns(ProviderOrder[i]), model)} IN
  IF hits = {} THEN None ELSE Some(ProviderOrder[CHOOSE i \in hits : \A j \in hits : i <= j])

\* the adapters that override generate_image
OverridesGenerateImage(p) == p = "openai"

\* the image-capable models of the OpenAI adapter
IsImageModel(model) == StartsWith(model, P_gpt_image) \/ StartsWith(model, P_dall_e)

\* a mutant: the base class reports "model not supported" instead of "not implemented"
adapter_generate_image_mnse(p, model) ==
  IF ~OverridesGenerateImage(p) THEN Error("ModelNotSupportedError", "Model ", model)
  ELSE IF ~IsImageModel(model) THEN Error("ModelNotSupportedError", "Model ", model)
  ELSE [kind |-> "image", model |-> model]

\* adapter.generate_image: BaseLLMProvider's default, or the adapter's override
adapter_generate_image(p, model) ==
  IF ~OverridesGenerateImage(p) THEN Error("NotImplementedError", "", model)
  ELSE IF ~IsImageModel(model) THEN Error("ModelNotSupportedError", "Model ", model)
  ELSE [kind |-> "image", model |-> model]

\* UniversalLLMClient.generate_image(prompt, model, provider=None)
client_generate_image(model, provider) ==
  LET p == IF IsNone(provider) THEN detect_provider(model) ELSE provider IN
  IF IsNone(p) THEN Error("ModelNotSupportedError", "Model ", model)
  ELSE adapter_generate_image(p[1], model)

(* ---------------- inputs ---------------- *)
ApiKeys == {"key-1"}
Roles == {"system", "user", "assistant", "tool"}
Contents == {"A", "B", ""}
ParamValues == {None, Some(0), Some(1)}
Messages == [role : Roles, content : Contents]
Conversations == UNION {[1..n -> Messages] : n \in 0..MaxMessages}

\* model names given to complete and stream_complete
CallModels == {P_gemini_25_flash, P_gemini_3_pro \o S_preview, N_gpt_4o}

\* model names given to get_model_capabilities
CapabilityModels == GEMINI_SUPPORTED_MODELS \cup {p \o S_preview : p \in GEMINI_SUPPORTED_MODELS} \cup {P_gemini_20_flash \o S_lite, N_gemini_pro, N_gemini_3, N_gpt_4o, N_unknown, N_deepseek_chat, <<>>}

\* model names and explicit providers given to generate_image
ImageModels == {N_unknown, N_gpt_4o, N_gpt_image_1, N_deepseek_chat, P_gemini_25_flash}
ProviderArgs == {None} \cup {Some(ProviderOrder[i]) : i \in 1..Len(ProviderOrder)}

Requests == [model : CallModels, messages : Conversations, max_tokens : ParamValues, temperature : ParamValues, top_p : ParamValues]
BasicRequests == {[model |-> m, messages |-> <<[role |-> "user", content |-> "A"]>>, max_tokens |-> None, temperature |-> None, top_p |-> None] : m \in CallModels}

ErrorMessages == {E_invalid_key, E_rate_limit, E_quota, E_unauthorized, E_rate_and_key, E_generate, E_timeout, E_empty}

\* vendor replies to generate_content
TextAttrs == {NoAttr, Attr(None), Attr(Some("")), Attr(Some("hi"))}
UsageAttrs == {NoAttr, Attr(None), Attr(Some([prompt_token_count |-> 3, candidates_token_count |-> 5, total_token_count |-> 8]))}
FinishAttrs == {NoAttr, Attr(None), Attr(Some("STOP"))}
CandidateAttrs == {NoAttr, Attr(None), Attr(Some(<<>>))} \cup {Attr(Some(<<[finish_reason |-> f]>>)) : f \in FinishAttrs}
CalculateCall == [name |-> "calculate", arguments |-> [expression |-> "2+2"]]
WeatherCall == [name |-> "get_weather", arguments |-> [location |-> "London"]]
FunctionCallLists == {<<>>, <<CalculateCall>>, <<CalculateCall, WeatherCall>>}
Replies == [text : TextAttrs, usage_metadata : UsageAttrs, candidates : CandidateAttrs, function_calls : FunctionCallLists]
PlainReply == [text |-> Attr(Some("hi")), usage_metadata |-> NoAttr, candidates |-> NoAttr, function_calls |-> <<>>]

NoVendor == [kind |-> "none"]
Raise(msg) == [kind |-> "raise", msg |-> msg]
Reply(r) == [kind |-> "reply", response |-> r]
CompleteVendors == {Raise(m) : m \in ErrorMessages} \cup {Reply(r) : r \in Replies}

\* vendor streams of generate_content_stream: the call itself raises, or it returns
\* an iterator that delivers the chunks and then ends or raises
ChunkTexts == {NoAttr, Attr(None), Attr(Some("")), Attr(Some("Hello")), Attr(Some(" ")), Attr(Some("world"))}
Chunks == [text : ChunkTexts]
ChunkLists == UNION {[1..n -> Chunks] : n \in 0..MaxChunks}
Stream(open, chunks, tail, msg) == [kind |-> "stream", open |-> open, chunks |-> chunks, tail |-> tail, msg |-> msg]
StreamVendors == {Stream("raise", <<>>, "end", m) : m \in ErrorMessages} \cup {Stream("ok", c, "end", E_empty) : c \in ChunkLists} \cup {Stream("ok", c, "raise", m) : c \in ChunkLists, m \in ErrorMessages}
PlainStream == Stream("ok", <<[text |-> Attr(Some("Hello"))]>>, "end", E_empty)

\* every request with a plain vendor, and a basic request with every vendor behaviour
CompleteInputs == (Requests \X {Reply(PlainReply)}) \cup (BasicRequests \X CompleteVendors)
StreamInputs == (Requests \X {PlainStream}) \cup (BasicRequests \X StreamVendors)

(* ---------------- state ---------------- *)
\* GeminiProvider.__init__ with a key available: what the adapter holds
GeminiProvider(api_key) == [api_key |-> api_key, client |-> [api_key |-> api_key], SUPPORTED_MODELS |-> GEMINI_SUPPORTED_MODELS]

NoRequest == [kind |-> "none"]

\* a task for which no call has been issued
NewTask == [phase |-> "new", op |-> "none", request |-> NoRequest, vendor |-> NoVendor, transport |-> <<>>, pos |-> 0, emitted |-> <<>>, outcome |-> NoOutcome]
Tasks == 1..MaxTasks

Init ==
  /\ tasks = [t \in Tasks |-> NewTask]
  /\ thread = 0
  /\ self \in {GeminiProvider(k) : k \in ApiKeys}
  /\ op = "none"
  /\ request = NoRequest
  /\ vendor = NoVendor
  /\ transport = <<>>
  /\ gen = "none"
  /\ pos = 0
  /\ emitted = <<>>
  /\ outcome = NoOutcome

(* ---------------- operations ---------------- *)
\* a mutant: the model is not validated before the vendor call
complete_unvalidated(req, vb) ==
  /\ op = "none"
  /\ op' = "complete"
  /\ request' = req
  /\ vendor' = vb
  /\ transport' = Append(transport, complete_call(req))
  /\ outcome' = IF vb.kind = "raise" THEN complete_classify(vb.msg) ELSE complete_response(req, vb.response)
  /\ UNCHANGED <<self, gen, pos, emitted>>

\* await provider.complete(request)
complete(req, vb) ==
  /\ op = "none"
  /\ op' = "complete"
  /\ request' = req
  /\ vendor' = vb
  /\ IF ~validate_model(self.SUPPORTED_MODELS, req.model)
     THEN /\ transport' = transport
          /\ outcome' = ModelNotSupported(req.model)
     ELSE /\ transport' = Append(transport, complete_call(req))
          /\ outcome' = IF vb.kind = "raise" THEN complete_classify(vb.msg) ELSE complete_response(req, vb.response)
  /\ UNCHANGED <<self, gen, pos, emitted>>

\* provider.stream_complete(request): the async generator object is created, none of its body runs
stream_complete(req, vb) ==
  /\ op = "none"
  /\ op' = "stream_complete"
  /\ request' = req
  /\ vendor' = vb
  /\ gen' = "created"
  /\ UNCHANGED <<self, transport, pos, emitted, outcome>>

\* the first __anext__: validation, translation, the vendor call, then the chunk loop to its first yield
stream_first ==
  /\ op = "stream_complete"
  /\ gen = "created"
  /\ IF ~validate_model(self.SUPPORTED_MODELS, request.model)
     THEN /\ gen' = "raised"
          /\ outcome' = ModelNotSupported(request.model)
          /\ UNCHANGED <<transport, pos, emitted>>
     ELSE /\ transport' = Append(transport, stream_call(request))
          /\ IF vendor.open = "raise"
             THEN /\ gen' = "raised"
                  /\ outcome' = stream_classify(vendor.msg)
                  /\ UNCHANGED <<pos, emitted>>
             ELSE LET r == stream_advance(vendor, 0) IN
                  /\ gen' = r.gen
                  /\ pos' = r.pos
                  /\ outcome' = r.outcome
                  /\ emitted' = IF IsNone(r.yielded) THEN emitted ELSE Append(emitted, r.yielded[1])
  /\ UNCHANGED <<self, op, request, vendor>>

\* a later __anext__: the generator resumes after its yield
stream_next ==
  /\ op = "stream_complete"
  /\ gen = "suspended"
  /\ LET r == stream_advance(vendor, pos) IN
     /\ gen' = r.gen
     /\ pos' = r.pos
     /\ outcome' = r.outcome
     /\ emitted' = IF IsNone(r.yielded) THEN emitted ELSE Append(emitted, r.yielded[1])
  /\ UNCHANGED <<self, op, request, vendor, transport>>

\* the caller stops consuming: aclose() raises GeneratorExit at the yield, which
\* `except Exception` does not catch
stream_abandon ==
  /\ op = "stream_complete"
  /\ gen \in {"created", "suspended"}
  /\ gen' = "abandoned"
  /\ UNCHANGED <<self, op, request, vendor, transport, pos, emitted, outcome>>

\* provider.get_model_capabilities(model)
capabilities(model) ==
  /\ op = "none"
  /\ op' = "get_model_capabilities"
  /\ request' = [model |-> model]
  /\ outcome' = get_model_capabilities(self.SUPPORTED_MODELS, model)
  /\ UNCHANGED <<self, vendor, transport, gen, pos, emitted>>

\* await client.generate_image(prompt, model, provider=...)
generate_image(model, provider) ==
  /\ op = "none"
  /\ op' = "generate_image"
  /\ request' = [model |-> model, provider |-> provider]
  /\ outcome' = client_generate_image(model, provider)
  /\ UNCHANGED <<self, vendor, transport, gen, pos, emitted>>

\* the call is over and its frame is dropped
Return ==
  /\ \/ op \in {"complete", "get_model_capabilities", "generate_image"}
     \/ op = "stream_complete" /\ gen \in {"closed", "raised", "abandoned"}
  /\ op' = "none"
  /\ request' = NoRequest
  /\ vendor' = NoVendor
  /\ transport' = <<>>
  /\ gen' = "none"
  /\ pos' = 0
  /\ emitted' = <<>>
  /\ outcome' = NoOutcome
  /\ UNCHANGED self

DoComplete == op = "none" /\ \E in \in CompleteInputs : complete(in[1], in[2])
DoStreamComplete == op = "none" /\ \E in \in StreamInputs : stream_complete(in[1], in[2])
DoCapabilities == op = "none" /\ \E m \in CapabilityModels : capabilities(m)
DoGenerateImage == op = "none" /\ \E m \in ImageModels, p \in ProviderArgs : generate_image(m, p)

Next ==
  \/ DoComplete /\ UNCHANGED loop
  \/ DoStreamComplete /\ UNCHANGED loop
  \/ stream_first /\ UNCHANGED loop
  \/ stream_next /\ UNCHANGED loop
  \/ stream_abandon /\ UNCHANGED loop
  \/ DoCapabilities /\ UNCHANGED loop
  \/ DoGenerateImage /\ UNCHANGED loop
  \/ Return /\ UNCHANGED loop

Spec == Init /\ [][Next]_vars

(* ---------------- concurrent calls on one event loop ---------------- *)
\* Tasks of one asyncio event loop call the shared adapter.  thread is the task
\* that holds the host thread (0: the loop is free to run a ready task).  A task
\* gives the thread back only where its code awaits something that suspends; the
\* adapter's vendor calls (generate_content, generate_content_stream and the chunk
\* iteration) are plain synchronous calls, so the thread is held while they wait.

LoopValid == P_gemini_25_flash
LoopRequest(m) == [model |-> m, messages |-> <<[role |-> "user", content |-> "A"]>>, max_tokens |-> None, temperature |-> None, top_p |-> None]
HelloChunk == [text |-> Attr(Some("Hello"))]
WorldChunk == [text |-> Attr(Some("world"))]

\* the calls the loop's tasks issue
LoopCalls ==
  {[op |-> "complete", request |-> LoopRequest(LoopValid), vendor |-> Reply(PlainReply)],
   [op |-> "complete", request |-> LoopRequest(LoopValid), vendor |-> Raise(E_timeout)],
   [op |-> "complete", request |-> LoopRequest(N_gpt_4o), vendor |-> Reply(PlainReply)],
   [op |-> "stream_complete", request |-> LoopRequest(LoopValid), vendor |-> Stream("ok", <<HelloChunk, WorldChunk>>, "end", E_empty)],
   [op |-> "stream_complete", request |-> LoopRequest(LoopValid), vendor |-> Stream("ok", <<HelloChunk>>, "raise", E_rate_limit)],
   [op |-> "stream_complete", request |-> LoopRequest(LoopValid), vendor |-> Stream("raise", <<>>, "end", E_invalid_key)],
   [op |-> "stream_complete", request |-> LoopRequest(N_gpt_4o), vendor |-> PlainStream]}

\* the caller issues a call: the coroutine (or the stream's consumer) becomes a ready task
task_spawn(t, call) ==
  /\ thread = 0
  /\ tasks[t].phase = "new"
  /\ tasks' = [tasks EXCEPT ![t] = [NewTask EXCEPT !.phase = "scheduled", !.op = call.op, !.request = call.request, !.vendor = call.vendor]]
  /\ UNCHANGED <<self, thread, frame>>

\* the loop runs a ready task: the body runs up to the vendor call, which it enters
\* without awaiting; a rejected model ends the task before any vendor call
task_run(t) ==
  /\ thread = 0
  /\ tasks[t].phase = "scheduled"
  /\ LET f == tasks[t] IN
     IF ~validate_model(self.SUPPORTED_MODELS, f.request.model)
     THEN /\ tasks' = [tasks EXCEPT ![t] = [f EXCEPT !.phase = "done", !.outcome = ModelNotSupported(f.request.model)]]
          /\ thread' = 0
     ELSE /\ tasks' = [tasks EXCEPT ![t] = [f EXCEPT !.phase = "vendor_wait",
                          !.transport = Append(@, IF f.op = "complete" THEN complete_call(f.request) ELSE stream_call(f.request))]]
          /\ thread' = t
  /\ UNCHANGED <<self, frame>>

\* the synchronous vendor call of task t returns or raises; the task goes on to its
\* return, its raise, or (a stream) its next yield
vendor_returns(t) ==
  /\ thread = t
  /\ tasks[t].phase = "vendor_wait"
  /\ LET f == tasks[t] IN
     IF f.op = "complete"
     THEN /\ tasks' = [tasks EXCEPT ![t] = [f EXCEPT !.phase = "done",
                          !.outcome = IF f.vendor.kind = "raise" THEN complete_classify(f.vendor.msg) ELSE complete_response(f.request, f.vendor.response)]]
          /\ thread' = 0
     ELSE IF f.vendor.open = "raise"
     THEN /\ tasks' = [tasks EXCEPT ![t] = [f EXCEPT !.phase = "done", !.outcome = stream_classify(f.vendor.msg)]]
          /\ thread' = 0
     ELSE LET r == stream_advance(f.vendor, f.pos) IN
          /\ tasks' = [tasks EXCEPT ![t] = [f EXCEPT !.phase = IF r.gen = "suspended" THEN "yielded" ELSE "done",
                          !.pos = r.pos, !.outcome = r.outcome,
                          !.emitted = IF IsNone(r.yielded) THEN @ ELSE Append(@, r.yielded[1])]]
          /\ thread' = IF r.gen = "suspended" THEN t ELSE 0
  /\ UNCHANGED <<self, frame>>

\* the consumer asks for the next fragment: the generator resumes after its yield
\* and goes back into the chunk iteration
consumer_next(t) ==
  /\ thread = t
  /\ tasks[t].phase = "yielded"
  /\ tasks' = [tasks EXCEPT ![t].phase = "vendor_wait"]
  /\ UNCHANGED <<self, thread, frame>>

\* the consumer awaits something of its own between two fragments
consumer_parks(t) ==
  /\ thread = t
  /\ tasks[t].phase = "yielded"
  /\ tasks' = [tasks EXCEPT ![t].phase = "parked"]
  /\ thread' = 0
  /\ UNCHANGED <<self, frame>>

\* the loop resumes a parked consumer
consumer_wakes(t) ==
  /\ thread = 0
  /\ tasks[t].phase = "parked"
  /\ tasks' = [tasks EXCEPT ![t].phase = "yielded"]
  /\ thread' = t
  /\ UNCHANGED <<self, frame>>

\* a mutant: abandoning the stream closes the adapter's client
consumer_abandons_closing(t) ==
  /\ thread = t
  /\ tasks[t].phase = "yielded"
  /\ tasks' = [tasks EXCEPT ![t].phase = "abandoned"]
  /\ thread' = 0
  /\ self' = [self EXCEPT !.client = [api_key |-> ""]]
  /\ UNCHANGED frame

\* the consumer stops consuming a partially consumed stream: GeneratorExit is raised
\* at the yield and passes the except clause
consumer_abandons(t) ==
  /\ thread = t
  /\ tasks[t].phase = "yielded"
  /\ tasks' = [tasks EXCEPT ![t].phase = "abandoned"]
  /\ thread' = 0
  /\ UNCHANGED <<self, frame>>

NextLoop ==
  \/ \E t \in Tasks : thread = 0 /\ tasks[t].phase = "new" /\ \E call \in LoopCalls : task_spawn(t, call)
  \/ \E t \in Tasks : task_run(t)
  \/ \E t \in Tasks : vendor_returns(t)
  \/ \E t \in Tasks : consumer_next(t)
  \/ \E t \in Tasks : consumer_parks(t)
  \/ \E t \in Tasks : consumer_wakes(t)
  \/ \E t \in Tasks : consumer_abandons(t)

SpecLoop == Init /\ [][NextLoop]_vars

(* ---------------- properties ---------------- *)
\* the call in progress was given a model name the adapter rejects
ModelRejected == op \in {"complete", "stream_complete"} /\ ~validate_model(self.SUPPORTED_MODELS, request.model)

IsError(type) == outcome.kind = "error" /\ outcome.type = type

\* the body of the stream generator has run (the first __anext__ happened)
StreamStarted == op = "stream_complete" /\ gen \in {"suspended", "closed", "raised"}

\* C1: a call with a model name that validate_model rejects fails with
\* ModelNotSupportedError before any network call: the vendor transport is invoked
\* zero times, no fragment is emitted, and the error is not reclassified.
C1_RejectedModelFailsFast ==
  ModelRejected =>
    /\ transport = <<>>
    /\ emitted = <<>>
    /\ op = "complete" => IsError("ModelNotSupportedError")
    /\ op = "stream_complete" => /\ gen \in {"created", "raised", "abandoned"}
                                 /\ gen = "raised" => IsError("ModelNotSupportedError")
                                 /\ gen # "raised" => outcome = NoOutcome

C1_Witness == ModelRejected /\ op = "stream_complete" /\ gen = "raised" /\ IsError("ModelNotSupportedError") /\ transport = <<>>

\* the vendor transport raised in the call in progress, and the adapter has seen it
VendorFailed ==
  \/ op = "complete" /\ transport # <<>> /\ vendor.kind = "raise"
  \/ op = "stream_complete" /\ gen = "raised" /\ transport # <<>>

\* what the message indicates, read from its lowercased text
MentionsAuth(m) == Contains(Lower(m), K_api_key) \/ Contains(Lower(m), K_auth)
MentionsRateLimit(m) == Contains(Lower(m), K_rate_limit) \/ Contains(Lower(m), K_quota)

\* C2: the classification is three-way over every vendor failure message: one
\* containing "invalid api key" surfaces as AuthenticationError, one containing
\* "rate limit" as ProviderError tagged rate-limit, and any other vendor failure (one
\* that mentions neither credentials nor a quota or rate limit) as generic ProviderError.
C2_ThreeWayClassification ==
  VendorFailed =>
    /\ Contains(Lower(vendor.msg), K_invalid_api_key) => IsError("AuthenticationError")
    /\ (Contains(Lower(vendor.msg), K_rate_limit) /\ ~MentionsAuth(vendor.msg)) =>
          (IsError("ProviderError") /\ outcome.prefix = RateLimitPrefix)
    /\ (~MentionsAuth(vendor.msg) /\ ~MentionsRateLimit(vendor.msg)) =>
          (IsError("ProviderError") /\ outcome.prefix = GenericPrefix)

\* the texts of the chunks the chunk loop yields, in order
RECURSIVE NonEmptyTexts(_)
NonEmptyTexts(chunks) ==
  IF chunks = <<>> THEN <<>>
  ELSE LET c == Head(chunks) IN
       IF c.text.has /\ c.text.v # None /\ c.text.v # Some("")
       THEN <<c.text.v[1]>> \o NonEmptyTexts(Tail(chunks))
       ELSE NonEmptyTexts(Tail(chunks))

\* C3: every exception of the vendor transport reaches the caller as exactly one
\* AuthenticationError or ProviderError that carries the original message, in complete
\* and in stream_complete, on opening the stream and mid-stream; after a mid-stream
\* failure the fragments emitted are the non-empty fragments the vendor delivered
\* before it, and none is emitted after the error.
C3_VendorErrorsReclassified ==
  VendorFailed =>
    /\ outcome.kind = "error"
    /\ outcome.type \in {"AuthenticationError", "ProviderError"}
    /\ outcome.prefix \in {AuthPrefix, RateLimitPrefix, GenericPrefix}
    /\ outcome.detail = vendor.msg
    /\ op = "stream_complete" =>
         /\ vendor.open = "raise" => emitted = <<>>
         /\ vendor.open = "ok" => (vendor.tail = "raise" /\ emitted = NonEmptyTexts(vendor.chunks))

C3_Witness ==
  /\ VendorFailed /\ op = "stream_complete" /\ vendor.open = "ok"
  /\ Len(emitted) = 2 /\ Len(vendor.chunks) = 3
  /\ IsError("ProviderError") /\ outcome.detail = E_timeout

\* the vendor request of the call in progress, once the transport has been invoked
Called == op \in {"complete", "stream_complete"} /\ transport # <<>>
Payload == transport[1]

SystemIndexes(messages) == {i \in 1..Len(messages) : messages[i].role = "system"}
LastSystem(messages) == messages[CHOOSE i \in SystemIndexes(messages) : \A j \in SystemIndexes(messages) : j <= i]
NoSystemInContents == \A i \in 1..Len(Payload.contents) : Payload.contents[i].role # "system"

\* C4 as stated: with two or more system messages the system-instruction slot equals
\* the content of the last system message, whatever that content is, and no system
\* message appears in the contents.
C4_LastSystemWins_Original ==
  (Called /\ Cardinality(SystemIndexes(request.messages)) >= 2) =>
    /\ Payload.config.system_instruction = Some(LastSystem(request.messages).content)
    /\ NoSystemInContents

\* C4, amended: with two or more system messages the system-instruction slot equals
\* the content of the last system message when that content is non-empty and is left
\* unset when it is empty; earlier system messages are discarded either way and no
\* system message appears in the contents.
C4_LastSystemWins ==
  (Called /\ Cardinality(SystemIndexes(request.messages)) >= 2) =>
    /\ LastSystem(request.messages).content # "" =>
         Payload.config.system_instruction = Some(LastSystem(request.messages).content)
    /\ LastSystem(request.messages).content = "" => Payload.config.system_instruction = None
    /\ NoSystemInContents

C4_Witness ==
  /\ Called /\ op = "stream_complete"
  /\ request.messages = <<[role |-> "system", content |-> "A"], [role |-> "system", content |-> "B"]>>
  /\ Payload.config.system_instruction = Some("B")
  /\ Payload.contents = <<>>

\* C5: each of max_tokens, temperature and top_p is carried by the vendor generation
\* config if and only if the request has it set, and a set value, 0 included, is
\* forwarded unchanged.
C5_OptionalParamsForwardedIffSet ==
  Called =>
    /\ IsNone(Payload.config.max_output_tokens) <=> IsNone(request.max_tokens)
    /\ IsNone(Payload.config.temperature) <=> IsNone(request.temperature)
    /\ IsNone(Payload.config.top_p) <=> IsNone(request.top_p)
    /\ ~IsNone(request.max_tokens) => Payload.config.max_output_tokens[1] = request.max_tokens[1]
    /\ ~IsNone(request.temperature) => Payload.config.temperature[1] = request.temperature[1]
    /\ ~IsNone(request.top_p) => Payload.config.top_p[1] = request.top_p[1]

C5_Witness ==
  /\ Called /\ op = "complete"
  /\ request.temperature = Some(0) /\ request.top_p = None /\ request.max_tokens = Some(1)
  /\ Payload.config.temperature = Some(0) /\ Payload.config.top_p = None

\* C6: the fragments stream_complete yields are exactly the vendor chunks with
\* non-empty text, in delivery order, none reordered, dropped or duplicated, and the
\* sequence closes when the vendor stream ends.
C6_StreamOrder ==
  (StreamStarted /\ transport # <<>> /\ vendor.open = "ok") =>
    /\ emitted = NonEmptyTexts(SubSeq(vendor.chunks, 1, pos))
    /\ gen = "suspended" => (pos >= 1 /\ emitted[Len(emitted)] = vendor.chunks[pos].text.v[1])
    /\ gen = "closed" => (vendor.tail = "end" /\ pos = Len(vendor.chunks) /\ outcome.kind = "closed")
    /\ (gen # "suspended" /\ vendor.tail = "end") => gen = "closed"

C6_Witness ==
  /\ StreamStarted /\ gen = "closed"
  /\ vendor.chunks = <<[text |-> Attr(Some("Hello"))], [text |-> Attr(Some(" "))], [text |-> Attr(Some("world"))]>>
  /\ emitted = <<"Hello", " ", "world">>

\* complete returned a normalized response for the vendor reply
Responded == op = "complete" /\ outcome.kind = "response"

\* C7: the normalized response lists every tool invocation of the vendor reply, in
\* order: a reply with one invocation of calculate with {"expression": "2+2"} yields
\* exactly one ToolCall with that name and those arguments.
C7_ToolCallRoundTrip ==
  Responded =>
    /\ vendor.response.function_calls # <<>> => outcome.tool_calls = Some(vendor.response.function_calls)
    /\ vendor.response.function_calls = <<CalculateCall>> =>
         (~IsNone(outcome.tool_calls) /\ Len(outcome.tool_calls[1]) = 1
          /\ outcome.tool_calls[1][1].name = "calculate"
          /\ outcome.tool_calls[1][1].arguments = [expression |-> "2+2"])

UsageReported(r) == r.usage_metadata.has /\ ~IsNone(r.usage_metadata.v)
FinishReported(r) ==
  /\ r.candidates.has /\ ~IsNone(r.candidates.v) /\ Len(r.candidates.v[1]) > 0
  /\ r.candidates.v[1][1].finish_reason.has /\ ~IsNone(r.candidates.v[1][1].finish_reason.v)

\* C9: usage is None when the vendor reply reports no usage counters and
\* finish_reason is None when it reports no finish reason (no candidates, or a
\* candidate whose finish reason is missing or None); when reported, usage carries
\* the vendor's three counters and finish_reason the reason as a string.
C9_AbsentWhenUnreported ==
  Responded =>
    LET r == vendor.response IN
    /\ ~UsageReported(r) => outcome.usage = None
    /\ ~FinishReported(r) => outcome.finish_reason = None
    /\ UsageReported(r) =>
         outcome.usage = Some([prompt_tokens |-> r.usage_metadata.v[1].prompt_token_count,
                               completion_tokens |-> r.usage_metadata.v[1].candidates_token_count,
                               total_tokens |-> r.usage_metadata.v[1].total_token_count])
    /\ FinishReported(r) => outcome.finish_reason = Some(r.candidates.v[1][1].finish_reason.v[1])

\* the provider a generate_image call resolves to
Resolved == IF IsNone(request.provider) THEN detect_provider(request.model) ELSE request.provider

\* C10: generate_image has three distinct failures: a model name no provider claims
\* fails with ModelNotSupportedError; a known provider with a known model that is not
\* an image model (gpt-4o) fails with ModelNotSupportedError; a provider whose adapter
\* does not override generate_image (Deepseek selected explicitly) fails with
\* NotImplementedError, not ModelNotSupportedError.
C10_ImageFailurePaths ==
  op = "generate_image" =>
    /\ (IsNone(request.provider) /\ \A i \in 1..Len(ProviderOrder) : ~validate_model(ProviderPatterns(ProviderOrder[i]), request.model)) =>
         IsError("ModelNotSupportedError")
    /\ (request.model = N_gpt_4o /\ Resolved = Some("openai")) => IsError("ModelNotSupportedError")
    /\ (request.model = N_deepseek_chat /\ request.provider = Some("deepseek")) => IsError("NotImplementedError")
    /\ (~IsNone(Resolved) /\ Resolved[1] \in {"anthropic", "gemini", "deepseek", "mistral"}) => IsError("NotImplementedError")

C10_Witness ==
  /\ op = "generate_image"
  /\ request.model = N_deepseek_chat /\ request.provider = Some("deepseek")
  /\ IsError("NotImplementedError")

\* the non-system messages of a conversation, in order
NonSystem(messages) == SelectSeq(messages, LAMBDA m : m.role # "system")

\* C13: the vendor contents list has exactly one entry per non-system message of the
\* request, in the same relative order, each carrying that message's content as its
\* single text part, with role "assistant" mapped to "model" and every other
\* non-system role label (user, tool) passed through unchanged.
C13_ContentsPreserveOrderAndRoles ==
  Called =>
    LET ns == NonSystem(request.messages) IN
    /\ Len(Payload.contents) = Len(ns)
    /\ \A i \in 1..Len(ns) :
         /\ Payload.contents[i].parts = <<[text |-> ns[i].content]>>
         /\ ns[i].role = "assistant" => Payload.contents[i].role = "model"
         /\ ns[i].role \in {"user", "tool"} => Payload.contents[i].role = ns[i].role

C13_Witness ==
  /\ Called /\ op = "complete"
  /\ request.messages = <<[role |-> "assistant", content |-> "B"], [role |-> "tool", content |-> "A"]>>
  /\ Payload.contents = <<[role |-> "model", parts |-> <<[text |-> "B"]>>], [role |-> "tool", parts |-> <<[text |-> "A"]>>]>>

\* the arguments a vendor call carries besides the method invoked
Translation(call) == [model |-> call.model, contents |-> call.contents, config |-> call.config]

\* C14: for every request with a supported model, the model, contents, system
\* instruction, max_output_tokens, temperature and top_p that stream_complete passes
\* to the streaming vendor call equal what complete passes to the non-streaming
\* vendor call for the same request.
C14_SameTranslation ==
  Called =>
    /\ op = "stream_complete" => (Payload.method = "generate_content_stream" /\ Translation(Payload) = Translation(complete_call(request)))
    /\ op = "complete" => (Payload.method = "generate_content" /\ Translation(Payload) = Translation(stream_call(request)))

C14_Witness ==
  /\ Called /\ op = "stream_complete"
  /\ request.messages = <<[role |-> "system", content |-> "A"], [role |-> "assistant", content |-> "B"]>>
  /\ request.top_p = Some(0) /\ request.temperature = Some(1) /\ request.max_tokens = None
  /\ Payload.config = [system_instruction |-> Some("A"), max_output_tokens |-> None, temperature |-> Some(1), top_p |-> Some(0)]

\* the markers of the except clause, looked for in the lowercased message
HasAuthMarker(m) == Contains(Lower(m), K_api_key) \/ Contains(Lower(m), K_auth)
HasRateMarker(m) == Contains(Lower(m), K_quota) \/ Contains(Lower(m), K_rate)

\* C15: the classification checks are ordered, authentication first: a message with
\* an authentication marker ("api key", "auth") surfaces as AuthenticationError even
\* when it also has a rate-limit marker ("quota", "rate"); the rate-limit
\* ProviderError is raised only when no authentication marker is present; exactly one
\* of the three outcomes occurs for every message.
C15_AuthBeforeRateLimit ==
  VendorFailed =>
    /\ HasAuthMarker(vendor.msg) => (IsError("AuthenticationError") /\ outcome.prefix = AuthPrefix)
    /\ (IsError("ProviderError") /\ outcome.prefix = RateLimitPrefix) <=> (~HasAuthMarker(vendor.msg) /\ HasRateMarker(vendor.msg))
    /\ (IsError("ProviderError") /\ outcome.prefix = GenericPrefix) <=> (~HasAuthMarker(vendor.msg) /\ ~HasRateMarker(vendor.msg))
    /\ Cardinality({k \in {<<"AuthenticationError", AuthPrefix>>, <<"ProviderError", RateLimitPrefix>>, <<"ProviderError", GenericPrefix>>} :
                      outcome.kind = "error" /\ outcome.type = k[1] /\ outcome.prefix = k[2]}) = 1

C15_Witness ==
  /\ VendorFailed /\ op = "complete"
  /\ vendor.msg = E_rate_and_key
  /\ HasAuthMarker(vendor.msg) /\ HasRateMarker(vendor.msg)
  /\ IsError("AuthenticationError")

\* C16: the system-instruction slot is set if and only if the request has at least
\* one system message and the last one has non-empty content; an empty last system
\* message sends no system instruction even if an earlier one was non-empty, and a
\* request without system messages leaves the slot unset.
C16_SystemSlotSetIff ==
  Called =>
    LET sys == SystemIndexes(request.messages) IN
    /\ ~IsNone(Payload.config.system_instruction) <=> (sys # {} /\ LastSystem(request.messages).content # "")
    /\ ~IsNone(Payload.config.system_instruction) => Payload.config.system_instruction[1] = LastSystem(request.messages).content

C16_Witness ==
  /\ Called /\ op = "complete"
  /\ request.messages = <<[role |-> "system", content |-> "A"], [role |-> "system", content |-> ""]>>
  /\ IsNone(Payload.config.system_instruction)

\* C11: the vendor round trip of a call is a cooperative suspension and no operation
\* blocks the host thread: while one call waits on its vendor round trip it does not
\* hold the thread, and a second call issued concurrently on the same event loop can
\* make progress.
C11_VendorWaitIsCooperative ==
  \A t \in Tasks :
    tasks[t].phase = "vendor_wait" =>
      /\ thread # t
      /\ \A u \in Tasks \ {t} : tasks[u].phase = "scheduled" => ENABLED task_run(u)

\* what a call on a freshly constructed adapter does with task t's request and vendor
FreshRejects(t) == ~validate_model(GEMINI_SUPPORTED_MODELS, tasks[t].request.model)
FreshCall(t) == IF tasks[t].op = "complete" THEN complete_call(tasks[t].request) ELSE stream_call(tasks[t].request)
BehavesAsFresh(t) ==
  LET f == tasks[t] IN
  /\ FreshRejects(t) => (f.phase = "done" /\ f.transport = <<>> /\ f.outcome = ModelNotSupported(f.request.model))
  /\ ~FreshRejects(t) => f.transport = <<FreshCall(t)>>
  /\ (~FreshRejects(t) /\ f.phase = "done" /\ f.op = "complete") =>
       f.outcome = IF f.vendor.kind = "raise" THEN complete_classify(f.vendor.msg) ELSE complete_response(f.request, f.vendor.response)
  /\ (~FreshRejects(t) /\ f.op = "stream_complete" /\ f.vendor.open = "ok") => f.emitted = NonEmptyTexts(SubSeq(f.vendor.chunks, 1, f.pos))

\* C12: what the adapter holds (API key, client, supported-model list) is set at
\* construction and unchanged by every sequence and interleaving of complete and
\* stream_complete calls, failing and rejected calls and abandoned streams included;
\* abandoning a partially consumed stream raises no error, and every call behaves as
\* it would on a fresh adapter.
C12_AdapterStateUnchanged ==
  /\ [](/\ self \in {GeminiProvider(k) : k \in ApiKeys}
        /\ \A t \in Tasks : tasks[t].phase = "abandoned" => tasks[t].outcome = NoOutcome
        /\ \A t \in Tasks : tasks[t].phase \notin {"new", "scheduled"} => BehavesAsFresh(t))
  /\ [][self' = self]_vars

C12_Witness ==
  /\ tasks[1].phase = "abandoned" /\ tasks[1].emitted = <<"Hello">> /\ Len(tasks[1].vendor.chunks) = 2
  /\ tasks[2].op = "complete" /\ tasks[2].phase = "vendor_wait"
  /\ tasks[2].transport = <<complete_call(LoopRequest(LoopValid))>>
  /\ self = GeminiProvider("key-1")

====
